---- MODULE Spec2Model ----
(***************************************************************************)
(* Model of klipper-ledstrip.py: a polling loop that reads a Klipper       *)
(* printer's status over HTTP and renders it on a WS281x LED strip.        *)
(*                                                                         *)
(* Numbers.  The script computes with Python floats.  The model keeps the  *)
(* same quantities as exact rationals over a fixed denominator (the bar    *)
(* position and the mixing weight in hundredths).  A double differs from   *)
(* the exact rational only by its binary rounding error, which can change  *)
(* a result only where the exact value sits on a rounding boundary; the    *)
(* parameter err (-1, 0, 1) of average and mix_color is the sign of that   *)
(* error, and the actions take every value of it.                          *)
(***************************************************************************)
EXTENDS Integers, Sequences, FiniteSets, TLC

VARIABLES
    pc,             \* position of run() (or of the function under test)
    ret,            \* where fade / chase return to in run()
    numPixels,      \* strip.numPixels()
    REVERSE,        \* module constant REVERSE
    strip,          \* pixel buffer of the strip object: index -> colour
    brightness,     \* global brightness of the strip object
    shown,          \* what the last strip.show() sent to the hardware
    events,         \* driver / network / sleep calls made by the last step
    percent,        \* the percent local of run() / argument of progress()
    base_color,     \* argument of the last progress() call
    progress_color, \* argument of the last progress() call
    color,          \* argument of fade() / chase()
    speed,          \* per-step delay of fade(), in milliseconds
    reverse,        \* argument of chase()
    i,              \* outer loop index of fade() / chase()
    pixel,          \* inner loop index of fade() / chase()
    hold,           \* environment: state the printer has settled in
    matched,        \* observer: polls so far that follow PollScript
    branches,       \* observer: branches run() took while following it
    quiet,          \* observer: latest polls in a row with an unrecognised state
    prev,           \* observer: <<percent, painted>> of the previous progress()
    colour1,        \* argument of mix_color() under test
    colour2,        \* argument of mix_color() under test
    percent_of_c1,  \* argument of mix_color() under test
    mixed,          \* result of mix_color() under test
    temp,           \* the heater object heating_percent() under test reads
    heated,         \* result of heating_percent() under test
    led_brightness, \* LED_BRIGHTNESS as color_brightness_correction() under
                    \* test reads it
    corrected,      \* result of color_brightness_correction() under test
    bed_off         \* environment: the bed heater has no target from now on

vars == <<pc, ret, numPixels, REVERSE, strip, brightness, shown, events,
          percent, base_color, progress_color, color, speed, reverse, i,
          pixel, hold, matched, branches, quiet, prev, colour1, colour2,
          percent_of_c1, mixed, temp, heated, led_brightness, corrected,
          bed_off>>

(***************************************************************************)
(* Program constants                                                       *)
(***************************************************************************)
LED_COUNT == 10
LED_BRIGHTNESS == 100

HEATING_BASE_COLOR == <<0, 0, 255>>
HEATING_PROGRESS_COLOR == <<255, 0, 0>>
PRINT_BASE_COLOR == <<0, 0, 0>>
PRINT_PROGRESS_COLOR == <<0, 255, 0>>
STANDBY_COLOR == <<255, 0, 255>>
PAUSED_COLOR == <<0, 255, 0>>
ERROR_COLOR == <<255, 0, 0>>

OFF == <<0, 0, 0>>

(***************************************************************************)
(* Bounds of the model                                                     *)
(***************************************************************************)
MaxPixels == 10

\* the percents progress() is specified for
Percents == 0..100

\* percent_of_c1 omitted (Python None)
None == -1

\* sign of the binary rounding error of a float expression
FpErr == {-1, 0, 1}

(***************************************************************************)
(* Events: one record per driver, network or sleep call                    *)
(***************************************************************************)
Ev(op, n, c, s) == [op |-> op, n |-> n, c |-> c, s |-> s]

EvBrightness(b) == Ev("setBrightness", b, OFF, "")
EvPixel(p, c, role) == Ev("setPixelColorRGB", p, c, role)
EvShow == Ev("show", 0, OFF, "")
EvSleep(ms) == Ev("sleep", ms, OFF, "")
EvQuery(name, value, state) == Ev(name, value, OFF, state)
EvRaise == Ev("raise", 0, OFF, "")

(***************************************************************************)
(* Colour mixer                                                            *)
(***************************************************************************)
\* Python round(): nearest integer of a / b (a >= 0, b > 0), a tie going to
\* the even neighbour when the float is exact and to the side of the
\* rounding error otherwise.
Round(a, b, err) ==
    LET q == a \div b
        r == a % b
    IN  IF 2 * r < b THEN q
        ELSE IF 2 * r > b THEN q + 1
        ELSE IF err < 0 THEN q
        ELSE IF err > 0 THEN q + 1
        ELSE IF q % 2 = 0 THEN q ELSE q + 1

\* num_a and num_b are given in units of 1/scale
average(num_a, num_b, scale, err) == Round(num_a + num_b, 2 * scale, err)

\* percent_of_c1 in hundredths, or None
mix_color(c1, c2, pct, err) ==
    LET weighted == pct # None /\ pct # 0
        exact == ~weighted \/ pct = 100
        e == IF exact THEN 0 ELSE err
        scale == IF weighted THEN 100 ELSE 1
        w1 == IF weighted THEN pct ELSE 1
        w2 == IF weighted THEN 100 - pct ELSE 1
    IN  [k \in 1..3 |-> average(c1[k] * w1, c2[k] * w2, scale, e)]

\* full scale of a channel and of the brightness (the divisor of line 77)
FullScale == 255

\* number of binary digits of x, 0 <= x <= FullScale
BitLength(x) == Cardinality({k \in 0..7 : 2 ^ k <= x})

\* the 8 binary digits of b rotated left by s places, 0 <= s <= 7
RotateLeft8(b, s) == ((b * (2 ^ s)) % 256) + (b \div (2 ^ (8 - s)))

\* int(channel * (b / 255)) as IEEE doubles compute it, 0 <= b <= 255.
\* b / 255 is the 8 digits of b repeated for ever after the binary point;
\* the double keeps 53 digits from the first 1 and rounds on the rest, whose
\* value is r / 255 of the last kept digit, r the digits of b rotated to
\* where the rest starts.  The product with channel is then off the real
\* product by channel * r / 255 of that digit, downward when r / 255 is
\* below one half.  Truncation sees the error only where the real product
\* is a whole number: the rounded product is then that number unless the
\* error exceeds half the distance to the double below it (a quarter of it
\* below a power of two), and in that case int() yields one less.
corrected_channel(channel, b) ==
    LET prod == channel * b
        exact == prod \div FullScale
        len == BitLength(b)
        r == RotateLeft8(b, ((8 - len) + 53) % 8)
        gap == FullScale * (2 ^ ((BitLength(exact) - 1) + (9 - len)))
        half == IF 2 ^ (BitLength(exact) - 1) = exact THEN 4 ELSE 2
    IN  IF prod % FullScale # 0 \/ exact = 0 \/ b = FullScale THEN exact
        ELSE IF 2 * r > FullScale THEN exact
        ELSE IF half * channel * r > gap THEN exact - 1
        ELSE exact

\* lines 77-82 with LED_BRIGHTNESS = b
brightness_corrected(c, b) == [k \in 1..3 |-> corrected_channel(c[k], b)]

\* color_brightness_correction with the ratio upside down
color_brightness_correction_Inverse(c) ==
    [k \in 1..3 |-> (c[k] * FullScale) \div LED_BRIGHTNESS]

\* the channels 0..255 corrected with the LED_BRIGHTNESS of line 17
CorrectedChannels ==
    [channel \in 0..FullScale |-> corrected_channel(channel, LED_BRIGHTNESS)]

color_brightness_correction(c) ==
    [k \in 1..3 |-> IF c[k] \in DOMAIN CorrectedChannels
                    THEN CorrectedChannels[c[k]]
                    ELSE corrected_channel(c[k], LED_BRIGHTNESS)]

(***************************************************************************)
(* Strip object                                                            *)
(***************************************************************************)
Blank(n) == [p \in 0..(n - 1) |-> OFF]

\* setPixelColorRGB: the driver stores the colour at an index of the buffer
SetPixel(s, p, c) == IF p \in DOMAIN s THEN [s EXCEPT ![p] = c] ELSE s

Flush(s, b) == [pixels |-> s, brightness |-> b]

\* the pixel writes of a sequence of events, applied in order: each pixel
\* ends with the colour of the last write to it
ApplyWrites(s, evs) ==
    [p \in DOMAIN s |->
        LET ks == {k \in DOMAIN evs :
                      evs[k].op = "setPixelColorRGB" /\ evs[k].n = p}
        IN  IF ks = {} THEN s[p]
            ELSE evs[CHOOSE k \in ks : \A m \in ks : m <= k].c]

(***************************************************************************)
(* progress()                                                              *)
(***************************************************************************)
\* upper_bar with the percent taken modulo 100
upper_bar_Wrapped(pct, n) == (pct % 100) * n

\* upper_bar = (percent / 100) * num_pixels, in hundredths of a pixel
upper_bar(pct, n) == pct * n

\* math.modf: integer part, truncated toward zero
upper_whole(pct, n) ==
    LET b == upper_bar(pct, n)
    IN  IF b >= 0 THEN b \div 100 ELSE 0 - ((0 - b) \div 100)

\* math.modf: fractional part, in hundredths, with the sign of upper_bar
upper_remainder(pct, n) == upper_bar(pct, n) - 100 * upper_whole(pct, n)

\* pixels_remaining when the base loop starts
pixels_remaining(pct, n) ==
    LET w == upper_whole(pct, n)
    IN  n - (IF w > 0 THEN w ELSE 0)
          - (IF upper_remainder(pct, n) > 0 THEN 1 ELSE 0)

\* WholeWrites with the reversed index counted from num_pixels
WholeWrites_OffByOne(pct, n, rv, prog) ==
    LET w == upper_whole(pct, n)
        cnt == IF w > 0 THEN w ELSE 0
    IN  [k \in 1..cnt |->
            EvPixel(IF rv THEN n - (k - 1) ELSE k,
                    color_brightness_correction(prog), "progress")]

\* first loop: range(int(upper_whole)) pixels in the progress colour
WholeWrites(pct, n, rv, prog) ==
    LET w == upper_whole(pct, n)
        cnt == IF w > 0 THEN w ELSE 0
    IN  [k \in 1..cnt |->
            EvPixel(IF rv THEN (n - 1) - (k - 1) ELSE k - 1,
                    color_brightness_correction(prog), "progress")]

\* TweenWrites with the boundary pixel placed on the last whole pixel
TweenWrites_OnWhole(pct, n, rv, base, prog, err) ==
    LET w == upper_whole(pct, n)
        r == upper_remainder(pct, n)
        tween_color == mix_color(prog, base, r, err)
    IN  IF r > 0
        THEN << EvPixel(IF rv THEN n - w ELSE w - 1,
                        color_brightness_correction(tween_color), "tween") >>
        ELSE << >>

\* the boundary pixel, written when upper_remainder > 0.0
TweenWrites(pct, n, rv, base, prog, err) ==
    LET w == upper_whole(pct, n)
        r == upper_remainder(pct, n)
        tween_color == mix_color(prog, base, r, err)
    IN  IF r > 0
        THEN << EvPixel(IF rv THEN (n - w) - 1 ELSE w,
                        color_brightness_correction(tween_color), "tween") >>
        ELSE << >>

\* BaseWrites with the loop one pixel short
BaseWrites_Short(pct, n, rv, base) ==
    LET rem == pixels_remaining(pct, n) - 1
        cnt == IF rem > 0 THEN rem ELSE 0
    IN  [k \in 1..cnt |->
            EvPixel(IF rv THEN (rem - 1) - (k - 1) ELSE (n - rem) + (k - 1),
                    color_brightness_correction(base), "base")]

\* last loop: range(pixels_remaining) pixels in the base colour
BaseWrites(pct, n, rv, base) ==
    LET rem == pixels_remaining(pct, n)
        cnt == IF rem > 0 THEN rem ELSE 0
    IN  [k \in 1..cnt |->
            EvPixel(IF rv THEN (rem - 1) - (k - 1) ELSE (n - rem) + (k - 1),
                    color_brightness_correction(base), "base")]

\* the driver calls of progress(strip, percent, base_color, progress_color)
ProgressCalls(pct, n, rv, base, prog, err) ==
    << EvBrightness(LED_BRIGHTNESS) >>
      \o WholeWrites(pct, n, rv, prog)
      \o TweenWrites(pct, n, rv, base, prog, err)
      \o BaseWrites(pct, n, rv, base)
      \o << EvShow >>

\* progress() as one step: it neither sleeps nor queries
progress(pct, base, prog) ==
    \E calls \in {ProgressCalls(pct, numPixels, REVERSE, base, prog, err) :
                      err \in FpErr} :
        \E after \in {ApplyWrites(strip, calls)} :
            /\ strip' = after
            /\ brightness' = LED_BRIGHTNESS
            /\ shown' = Flush(after, LED_BRIGHTNESS)
            /\ events' = calls
            /\ percent' = pct
            /\ base_color' = base
            /\ progress_color' = prog

(***************************************************************************)
(* Status client                                                           *)
(***************************************************************************)
PrinterStates == {"printing", "standby", "paused", "error", "complete"}

\* what a poll can return: anything, or the state the printer settled in
PolledStates == IF hold = "none" THEN PrinterStates ELSE {hold}

\* <<temperature, target>> answers of a heater query
HeaterReadings ==
    {<<25, 0>>, <<-10, 60>>, <<33, 60>>, <<59, 60>>, <<208, 210>>, <<61, 60>>}

\* answers of a bed heater query: with the heater off the target is 0
BedReadings ==
    IF bed_off THEN {rd \in HeaterReadings : rd[2] = 0} ELSE HeaterReadings

\* display_status.progress answers, in thousandths
ProgressReadings == {0, 425, 999, 1000}

\* what a float division by zero yields in place of a number
ZeroDivisionError == -1000000

\* math.floor(temperature / target * 100), line 47
FloorPercent(temperature, target) ==
    IF target = 0 THEN ZeroDivisionError
    ELSE (temperature * 100) \div target

\* heating_percent with the guard of line 45 on the wrong field
heating_percent_WrongGuard(temperature, target) ==
    IF temperature = 0 THEN 0 ELSE FloorPercent(temperature, target)

heating_percent(temperature, target) ==
    IF target = 0 THEN 0 ELSE FloorPercent(temperature, target)

\* a heater object before any query
NoHeater == [temperature |-> 0, target |-> 0]

printing_percent(progress1000) == progress1000 \div 10

(***************************************************************************)
(* Frames                                                                  *)
(***************************************************************************)
cfgVars == <<numPixels, REVERSE>>
hwVars == <<strip, brightness, shown>>
progArgs == <<percent, base_color, progress_color>>
animVars == <<color, speed, reverse, i, pixel, ret>>
envVars == <<hold, bed_off>>
obsVars == <<matched, branches, quiet>>
heatVars == <<temp, heated>>
corrVars == <<led_brightness, corrected>>
testVars == <<prev, colour1, colour2, percent_of_c1, mixed, heatVars,
              corrVars>>

(***************************************************************************)
(* Observer of the printer_state() calls                                   *)
(***************************************************************************)
PollScript == <<"printing", "printing", "standby", "error", "printing">>

\* the states run() has a branch for
Recognised == {"printing", "standby", "paused", "error"}

\* the printer_state() calls of one pass of the outer loop
StatePolls ==
    <<"poll_print", "poll_printing", "poll_standby", "poll_paused",
      "poll_error">>

\* a printer_state() call returned s; taken tells whether run() entered the
\* loop body guarded by that call
Observe(s, taken) ==
    LET follows == /\ matched >= 0
                   /\ matched < Len(PollScript)
                   /\ PollScript[matched + 1] = s
    IN  /\ matched' = IF follows THEN matched + 1 ELSE -1
        /\ branches' = IF ~follows THEN << >>
                       ELSE IF taken THEN Append(branches, s)
                       ELSE branches
        /\ quiet' = IF s \in Recognised THEN 0
                    ELSE IF quiet < Len(StatePolls) THEN quiet + 1
                    ELSE quiet

(***************************************************************************)
(* run(): the polling loop                                                 *)
(***************************************************************************)
\* line 168: print(printer_state())
PollPrint ==
    /\ pc = "poll_print"
    /\ \E s \in PolledStates :
        /\ events' = << EvQuery("printer_state", 0, s) >>
        /\ Observe(s, FALSE)
    /\ pc' = "poll_printing"
    /\ UNCHANGED <<cfgVars, hwVars, progArgs, animVars, envVars, testVars>>

\* PollPrinting with the extruder loop placed before the bed loop
PollPrinting_ExtruderFirst ==
    /\ pc = "poll_printing"
    /\ \E s \in PolledStates :
        /\ events' = << EvQuery("printer_state", 0, s) >>
        /\ Observe(s, s = "printing")
        /\ pc' = IF s = "printing" THEN "ext_poll" ELSE "poll_standby"
    /\ UNCHANGED <<cfgVars, hwVars, progArgs, animVars, envVars, testVars>>

\* line 169: while printer_state() == 'printing'
PollPrinting ==
    /\ pc = "poll_printing"
    /\ \E s \in PolledStates :
        /\ events' = << EvQuery("printer_state", 0, s) >>
        /\ Observe(s, s = "printing")
        /\ pc' = IF s = "printing" THEN "bed_poll" ELSE "poll_standby"
    /\ UNCHANGED <<cfgVars, hwVars, progArgs, animVars, envVars, testVars>>

\* lines 171 and 179 with the test of line 172
BedPoll ==
    /\ pc = "bed_poll"
    /\ \E rd \in BedReadings :
        LET v == heating_percent(rd[1], rd[2])
        IN  /\ events' = << EvQuery("heating_percent", v, "heater_bed") >>
            /\ percent' = v
            /\ pc' = IF v < 99 THEN "bed_render" ELSE "ext_poll"
    /\ UNCHANGED <<cfgVars, hwVars, base_color, progress_color, animVars,
                   envVars, obsVars, testVars>>

\* lines 174-177
BedRender ==
    /\ pc = "bed_render"
    /\ progress(percent, HEATING_BASE_COLOR, HEATING_PROGRESS_COLOR)
    /\ pc' = "bed_sleep"
    /\ UNCHANGED <<cfgVars, animVars, envVars, obsVars, testVars>>

\* BedSleep with line 179 missing: the bed loop runs once and the test of
\* line 169 comes next
BedSleep_LeavesPhase ==
    /\ pc = "bed_sleep"
    /\ events' = << EvSleep(2000) >>
    /\ pc' = "poll_printing"
    /\ UNCHANGED <<cfgVars, hwVars, progArgs, animVars, envVars, obsVars,
                   testVars>>

\* line 178
BedSleep ==
    /\ pc = "bed_sleep"
    /\ events' = << EvSleep(2000) >>
    /\ pc' = "bed_poll"
    /\ UNCHANGED <<cfgVars, hwVars, progArgs, animVars, envVars, obsVars,
                   testVars>>

\* lines 181 and 189 with the test of line 182
ExtruderPoll ==
    /\ pc = "ext_poll"
    /\ \E rd \in HeaterReadings :
        LET v == heating_percent(rd[1], rd[2])
        IN  /\ events' = << EvQuery("heating_percent", v, "extruder") >>
            /\ percent' = v
            /\ pc' = IF v < 99 THEN "ext_render" ELSE "print_poll"
    /\ UNCHANGED <<cfgVars, hwVars, base_color, progress_color, animVars,
                   envVars, obsVars, testVars>>

\* lines 184-187
ExtruderRender ==
    /\ pc = "ext_render"
    /\ progress(percent, HEATING_BASE_COLOR, HEATING_PROGRESS_COLOR)
    /\ pc' = "ext_sleep"
    /\ UNCHANGED <<cfgVars, animVars, envVars, obsVars, testVars>>

\* line 188
ExtruderSleep ==
    /\ pc = "ext_sleep"
    /\ events' = << EvSleep(2000) >>
    /\ pc' = "ext_poll"
    /\ UNCHANGED <<cfgVars, hwVars, progArgs, animVars, envVars, obsVars,
                   testVars>>

\* PrintPoll with the test printing_percent_ <= 100
PrintPoll_Inclusive ==
    /\ pc = "print_poll"
    /\ \E rd \in ProgressReadings :
        LET v == printing_percent(rd)
        IN  /\ events' = << EvQuery("printing_percent", v, "") >>
            /\ percent' = v
            /\ pc' = IF v <= 100 THEN "print_render" ELSE "poll_printing"
    /\ UNCHANGED <<cfgVars, hwVars, base_color, progress_color, animVars,
                   envVars, obsVars, testVars>>

\* lines 191 and 199 with the test of line 192
PrintPoll ==
    /\ pc = "print_poll"
    /\ \E rd \in ProgressReadings :
        LET v == printing_percent(rd)
        IN  /\ events' = << EvQuery("printing_percent", v, "") >>
            /\ percent' = v
            /\ pc' = IF v < 100 THEN "print_render" ELSE "poll_printing"
    /\ UNCHANGED <<cfgVars, hwVars, base_color, progress_color, animVars,
                   envVars, obsVars, testVars>>

\* lines 194-197
PrintRender ==
    /\ pc = "print_render"
    /\ progress(percent, PRINT_BASE_COLOR, PRINT_PROGRESS_COLOR)
    /\ pc' = "print_sleep"
    /\ UNCHANGED <<cfgVars, animVars, envVars, obsVars, testVars>>

\* line 198
PrintSleep ==
    /\ pc = "print_sleep"
    /\ events' = << EvSleep(2000) >>
    /\ pc' = "print_poll"
    /\ UNCHANGED <<cfgVars, hwVars, progArgs, animVars, envVars, obsVars,
                   testVars>>

\* the call fade(strip, c, speed) from the loop at pc
CallFade(c, ms, from) ==
    /\ color' = c
    /\ speed' = ms
    /\ ret' = from
    /\ pixel' = 0
    /\ pc' = "fade_fill"
    /\ UNCHANGED <<reverse, i>>

\* the call bounce(strip, c): chase forward first
CallBounce(c, from) ==
    /\ color' = c
    /\ reverse' = FALSE
    /\ ret' = from
    /\ pc' = "chase_brightness"
    /\ UNCHANGED <<speed, i, pixel>>

\* PollStandby with the test of the error loop copied into the standby loop
PollStandby_WrongState ==
    /\ pc = "poll_standby"
    /\ \E s \in PolledStates :
        /\ events' = << EvQuery("printer_state", 0, s) >>
        /\ Observe(s, s = "error")
        /\ IF s = "error"
           THEN CallFade(STANDBY_COLOR, 50, "poll_standby")
           ELSE pc' = "poll_paused" /\ UNCHANGED animVars
    /\ UNCHANGED <<cfgVars, hwVars, progArgs, envVars, testVars>>

\* PollStandby written as the default branch: it fades on every state that
\* no other loop handles
PollStandby_Default ==
    /\ pc = "poll_standby"
    /\ \E s \in PolledStates :
        /\ events' = << EvQuery("printer_state", 0, s) >>
        /\ Observe(s, s = "standby")
        /\ IF s \notin {"printing", "paused", "error"}
           THEN CallFade(STANDBY_COLOR, 50, "poll_standby")
           ELSE pc' = "poll_paused" /\ UNCHANGED animVars
    /\ UNCHANGED <<cfgVars, hwVars, progArgs, envVars, testVars>>

\* lines 201-202: while printer_state() == 'standby': fade(slow)
PollStandby ==
    /\ pc = "poll_standby"
    /\ \E s \in PolledStates :
        /\ events' = << EvQuery("printer_state", 0, s) >>
        /\ Observe(s, s = "standby")
        /\ IF s = "standby"
           THEN CallFade(STANDBY_COLOR, 50, "poll_standby")
           ELSE pc' = "poll_paused" /\ UNCHANGED animVars
    /\ UNCHANGED <<cfgVars, hwVars, progArgs, envVars, testVars>>

\* PollPaused with an if in place of the while: after one bounce run() goes
\* on to the error test
PollPaused_Once ==
    /\ pc = "poll_paused"
    /\ \E s \in PolledStates :
        /\ events' = << EvQuery("printer_state", 0, s) >>
        /\ Observe(s, s = "paused")
        /\ IF s = "paused"
           THEN CallBounce(PAUSED_COLOR, "poll_error")
           ELSE pc' = "poll_error" /\ UNCHANGED animVars
    /\ UNCHANGED <<cfgVars, hwVars, progArgs, envVars, testVars>>

\* lines 204-205: while printer_state() == 'paused': bounce
PollPaused ==
    /\ pc = "poll_paused"
    /\ \E s \in PolledStates :
        /\ events' = << EvQuery("printer_state", 0, s) >>
        /\ Observe(s, s = "paused")
        /\ IF s = "paused"
           THEN CallBounce(PAUSED_COLOR, "poll_paused")
           ELSE pc' = "poll_error" /\ UNCHANGED animVars
    /\ UNCHANGED <<cfgVars, hwVars, progArgs, envVars, testVars>>

\* lines 207-208: while printer_state() == 'error': fade(fast)
PollError ==
    /\ pc = "poll_error"
    /\ \E s \in PolledStates :
        /\ events' = << EvQuery("printer_state", 0, s) >>
        /\ Observe(s, s = "error")
        /\ IF s = "error"
           THEN CallFade(ERROR_COLOR, 5, "poll_error")
           ELSE pc' = "sleep" /\ UNCHANGED animVars
    /\ UNCHANGED <<cfgVars, hwVars, progArgs, envVars, testVars>>

\* line 210
Sleep ==
    /\ pc = "sleep"
    /\ events' = << EvSleep(2000) >>
    /\ pc' = "poll_print"
    /\ UNCHANGED <<cfgVars, hwVars, progArgs, animVars, envVars, obsVars,
                   testVars>>

(***************************************************************************)
(* fade()                                                                  *)
(***************************************************************************)
\* lines 118-119: one pixel of the fill loop
FadeFill ==
    /\ pc = "fade_fill"
    /\ strip' = SetPixel(strip, pixel, color)
    /\ events' = << EvPixel(pixel, color, "fade") >>
    /\ IF pixel + 1 < numPixels
       THEN pixel' = pixel + 1 /\ pc' = "fade_fill"
       ELSE pixel' = 0 /\ pc' = "fade_show"
    /\ UNCHANGED <<cfgVars, brightness, shown, progArgs, color, speed,
                   reverse, i, ret, envVars, obsVars, testVars>>

\* line 120
FadeShow ==
    /\ pc = "fade_show"
    /\ shown' = Flush(strip, brightness)
    /\ events' = << EvShow >>
    /\ i' = 0
    /\ pc' = IF LED_BRIGHTNESS > 0 THEN "fade_up_set" ELSE "fade_hold"
    /\ UNCHANGED <<cfgVars, strip, brightness, progArgs, color, speed,
                   reverse, pixel, ret, envVars, obsVars, testVars>>

\* line 123
FadeUpSet ==
    /\ pc = "fade_up_set"
    /\ brightness' = i
    /\ events' = << EvBrightness(i) >>
    /\ pc' = "fade_up_show"
    /\ UNCHANGED <<cfgVars, strip, shown, progArgs, animVars, envVars, obsVars,
                   testVars>>

\* line 124
FadeUpShow ==
    /\ pc = "fade_up_show"
    /\ shown' = Flush(strip, brightness)
    /\ events' = << EvShow >>
    /\ pc' = "fade_up_sleep"
    /\ UNCHANGED <<cfgVars, strip, brightness, progArgs, animVars, envVars,
                   obsVars, testVars>>

\* line 125 and the step of range(LED_BRIGHTNESS)
FadeUpSleep ==
    /\ pc = "fade_up_sleep"
    /\ events' = << EvSleep(speed) >>
    /\ IF i + 1 < LED_BRIGHTNESS
       THEN i' = i + 1 /\ pc' = "fade_up_set"
       ELSE i' = i /\ pc' = "fade_hold"
    /\ UNCHANGED <<cfgVars, hwVars, progArgs, color, speed, reverse, pixel,
                   ret, envVars, obsVars, testVars>>

\* line 127
FadeHold ==
    /\ pc = "fade_hold"
    /\ events' = << EvSleep(speed * 5) >>
    /\ i' = LED_BRIGHTNESS
    /\ pc' = "fade_down_set"
    /\ UNCHANGED <<cfgVars, hwVars, progArgs, color, speed, reverse, pixel,
                   ret, envVars, obsVars, testVars>>

\* line 130
FadeDownSet ==
    /\ pc = "fade_down_set"
    /\ brightness' = i
    /\ events' = << EvBrightness(i) >>
    /\ pc' = "fade_down_show"
    /\ UNCHANGED <<cfgVars, strip, shown, progArgs, animVars, envVars, obsVars,
                   testVars>>

\* line 131
FadeDownShow ==
    /\ pc = "fade_down_show"
    /\ shown' = Flush(strip, brightness)
    /\ events' = << EvShow >>
    /\ pc' = "fade_down_sleep"
    /\ UNCHANGED <<cfgVars, strip, brightness, progArgs, animVars, envVars,
                   obsVars, testVars>>

\* line 132 and the step of range(LED_BRIGHTNESS, -1, -1); fade returns
\* after the step at 0
FadeDownSleep ==
    /\ pc = "fade_down_sleep"
    /\ events' = << EvSleep(speed) >>
    /\ IF i > 0
       THEN i' = i - 1 /\ pc' = "fade_down_set"
       ELSE i' = 0 /\ pc' = ret
    /\ UNCHANGED <<cfgVars, hwVars, progArgs, color, speed, reverse, pixel,
                   ret, envVars, obsVars, testVars>>

(***************************************************************************)
(* chase() and bounce()                                                    *)
(***************************************************************************)
\* ChaseBrightness with the sweep over range(strip.numPixels())
ChaseBrightness_NoExtra ==
    /\ pc = "chase_brightness"
    /\ brightness' = LED_BRIGHTNESS
    /\ events' = << EvBrightness(LED_BRIGHTNESS) >>
    /\ i' = IF reverse THEN numPixels - 1 ELSE 0
    /\ pixel' = 0
    /\ pc' = "chase_write"
    /\ UNCHANGED <<cfgVars, strip, shown, progArgs, color, speed, reverse,
                   ret, envVars, obsVars, testVars>>

\* line 137 and the first value of the sweep of line 138
ChaseBrightness ==
    /\ pc = "chase_brightness"
    /\ brightness' = LED_BRIGHTNESS
    /\ events' = << EvBrightness(LED_BRIGHTNESS) >>
    /\ i' = IF reverse THEN numPixels ELSE 0
    /\ pixel' = 0
    /\ pc' = "chase_write"
    /\ UNCHANGED <<cfgVars, strip, shown, progArgs, color, speed, reverse,
                   ret, envVars, obsVars, testVars>>

\* lines 141-144
ChaseWrite ==
    /\ pc = "chase_write"
    /\ LET c == IF i = pixel THEN color ELSE OFF
       IN  /\ strip' = SetPixel(strip, pixel, c)
           /\ events' = << EvPixel(pixel, c, "chase") >>
    /\ pc' = "chase_show"
    /\ UNCHANGED <<cfgVars, brightness, shown, progArgs, animVars, envVars,
                   obsVars, testVars>>

\* line 145
ChaseShow ==
    /\ pc = "chase_show"
    /\ shown' = Flush(strip, brightness)
    /\ events' = << EvShow >>
    /\ pc' = "chase_sleep"
    /\ UNCHANGED <<cfgVars, strip, brightness, progArgs, animVars, envVars,
                   obsVars, testVars>>

\* line 146, the steps of the loops of lines 138-139, and the return of
\* chase: to the second chase of bounce (line 152) or to the caller
ChaseSleep ==
    /\ pc = "chase_sleep"
    /\ events' = << EvSleep(10) >>
    /\ IF pixel + 1 < numPixels
       THEN /\ pixel' = pixel + 1
            /\ pc' = "chase_write"
            /\ UNCHANGED <<i, reverse>>
       ELSE IF reverse /\ i > 0
       THEN /\ pixel' = 0
            /\ i' = i - 1
            /\ pc' = "chase_write"
            /\ UNCHANGED reverse
       ELSE IF ~reverse /\ i < numPixels
       THEN /\ pixel' = 0
            /\ i' = i + 1
            /\ pc' = "chase_write"
            /\ UNCHANGED reverse
       ELSE IF ~reverse
       THEN /\ pixel' = 0
            /\ i' = 0
            /\ reverse' = TRUE
            /\ pc' = "chase_brightness"
       ELSE /\ pixel' = 0
            /\ i' = 0
            /\ pc' = ret
            /\ UNCHANGED reverse
    /\ UNCHANGED <<cfgVars, hwVars, progArgs, color, speed, ret, envVars,
                   obsVars, testVars>>

(***************************************************************************)
(* Ways out of run()                                                       *)
(***************************************************************************)
QueryPcs == {"poll_print", "poll_printing", "poll_standby", "poll_paused",
             "poll_error", "bed_poll", "ext_poll", "print_poll"}

\* the three loops of the printing branch, lines 171-179, 181-189, 191-199
BedPcs == {"bed_poll", "bed_render", "bed_sleep"}
ExtruderPcs == {"ext_poll", "ext_render", "ext_sleep"}
PrintPcs == {"print_poll", "print_render", "print_sleep"}

PhasePcs == BedPcs \cup ExtruderPcs \cup PrintPcs

FadePcs == {"fade_fill", "fade_show", "fade_up_set", "fade_up_show",
            "fade_up_sleep", "fade_hold", "fade_down_set", "fade_down_show",
            "fade_down_sleep"}

ChasePcs == {"chase_brightness", "chase_write", "chase_show", "chase_sleep"}

LoopPcs == QueryPcs \cup PhasePcs \cup FadePcs \cup ChasePcs \cup {"sleep"}

\* QueryFails with the failure caught by the handler of run(): the strip is
\* cleared and flushed before run() ends
QueryFails_Handled ==
    /\ pc \in QueryPcs
    /\ strip' = Blank(numPixels)
    /\ shown' = Flush(Blank(numPixels), brightness)
    /\ events' = << EvRaise >>
    /\ pc' = "crashed"
    /\ UNCHANGED <<cfgVars, brightness, progArgs, animVars, envVars, obsVars,
                   testVars>>

\* requests.get or json.loads raises inside a status query: no except
\* clause of run() matches, the exception leaves run()
QueryFails ==
    /\ pc \in QueryPcs
    /\ events' = << EvRaise >>
    /\ pc' = "crashed"
    /\ UNCHANGED <<cfgVars, hwVars, progArgs, animVars, envVars, obsVars,
                   testVars>>

\* HandlerCalls with the loop one pixel short
HandlerCalls_Short(n) ==
    [k \in 1..(n - 1) |-> EvPixel(k - 1, OFF, "clear")] \o << EvShow >>

\* the driver calls of the handler, lines 213-215
HandlerCalls(n) ==
    [k \in 1..n |-> EvPixel(k - 1, OFF, "clear")] \o << EvShow >>

\* except KeyboardInterrupt, lines 212-215, from anywhere in the loop
KeyboardInterrupt ==
    /\ pc \in LoopPcs
    /\ LET calls == HandlerCalls(numPixels)
           after == ApplyWrites(strip, calls)
       IN  /\ strip' = after
           /\ shown' = Flush(after, brightness)
           /\ events' = calls
    /\ pc' = "exited"
    /\ UNCHANGED <<cfgVars, brightness, progArgs, animVars, envVars, obsVars,
                   testVars>>

(***************************************************************************)
(* The program                                                             *)
(***************************************************************************)
\* values of the variables a specification does not use
Idle ==
    /\ ret = "poll_print"
    /\ events = << >>
    /\ percent = 0
    /\ base_color = OFF
    /\ progress_color = OFF
    /\ speed = 0
    /\ reverse = FALSE
    /\ i = 0
    /\ pixel = 0
    /\ hold = "none"
    /\ bed_off = FALSE
    /\ matched = 0
    /\ branches = << >>
    /\ quiet = 0
    /\ prev = << >>
    /\ mixed = OFF
    /\ heated = 0
    /\ corrected = OFF

\* run() up to the first poll: the strip object as constructed
Init ==
    /\ pc = "poll_print"
    /\ numPixels = LED_COUNT
    /\ REVERSE = TRUE
    /\ strip = Blank(LED_COUNT)
    /\ brightness = LED_BRIGHTNESS
    /\ shown = Flush(Blank(LED_COUNT), LED_BRIGHTNESS)
    /\ colour1 = OFF
    /\ colour2 = OFF
    /\ percent_of_c1 = None
    /\ temp = NoHeater
    /\ color = OFF
    /\ led_brightness = LED_BRIGHTNESS
    /\ Idle

Step ==
    \/ PollPrint \/ PollPrinting
    \/ BedPoll \/ BedRender \/ BedSleep
    \/ ExtruderPoll \/ ExtruderRender \/ ExtruderSleep
    \/ PrintPoll \/ PrintRender \/ PrintSleep
    \/ PollStandby \/ PollPaused \/ PollError \/ Sleep
    \/ FadeFill \/ FadeShow \/ FadeUpSet \/ FadeUpShow \/ FadeUpSleep
    \/ FadeHold \/ FadeDownSet \/ FadeDownShow \/ FadeDownSleep
    \/ ChaseBrightness \/ ChaseWrite \/ ChaseShow \/ ChaseSleep

Next == Step \/ QueryFails \/ KeyboardInterrupt

Spec == Init /\ [][Next]_vars

(***************************************************************************)
(* run() against a printer that settles in one state                       *)
(***************************************************************************)
Settled == {"standby", "paused", "error"}

\* environment: from now on every printer_state() call returns s
Settle ==
    /\ hold = "none"
    /\ pc \in LoopPcs
    /\ \E s \in Settled : hold' = s
    /\ events' = << >>
    /\ UNCHANGED <<pc, cfgVars, hwVars, progArgs, animVars, obsVars,
                   testVars, bed_off>>

NextLive == Step \/ Settle

\* every query returns and no interrupt arrives: the single thread of
\* run() always takes its next step
LiveSpec == Init /\ [][NextLive]_vars /\ WF_vars(Step)

(***************************************************************************)
(* run() against a printer whose bed heater is switched off                *)
(***************************************************************************)
\* environment: from now on every heater_bed query answers target 0
SwitchBedOff ==
    /\ ~bed_off
    /\ pc \in LoopPcs
    /\ bed_off' = TRUE
    /\ events' = << >>
    /\ UNCHANGED <<pc, cfgVars, hwVars, progArgs, animVars, obsVars,
                   testVars, hold>>

NextColdBed == Next \/ SwitchBedOff

\* run() takes its next step as long as it has not ended
SpecColdBed == Init /\ [][NextColdBed]_vars /\ WF_vars(Step)

(***************************************************************************)
(* progress() on its own: two calls in a row on one strip                  *)
(***************************************************************************)
\* <<base_color, progress_color>> arguments
ColorPairs ==
    { <<HEATING_BASE_COLOR, HEATING_PROGRESS_COLOR>>,
      <<PRINT_BASE_COLOR, PRINT_PROGRESS_COLOR>>,
      <<STANDBY_COLOR, <<10, 100, 200>> >> }

Solid(n, c) == [p \in 0..(n - 1) |-> c]

\* pixel writes of a progress() call that are not base pixels
Painted(evs) ==
    Cardinality({k \in DOMAIN evs :
                    evs[k].op = "setPixelColorRGB" /\ evs[k].s # "base"})

\* a strip of any length as a fade leaves it: one colour, brightness 0
InitProgress ==
    /\ pc = "call_progress"
    /\ numPixels \in 1..MaxPixels
    /\ REVERSE \in BOOLEAN
    /\ strip = Solid(numPixels, STANDBY_COLOR)
    /\ brightness = 0
    /\ shown = Flush(strip, 0)
    /\ colour1 = OFF
    /\ colour2 = OFF
    /\ percent_of_c1 = None
    /\ temp = NoHeater
    /\ color = OFF
    /\ led_brightness = LED_BRIGHTNESS
    /\ Idle

CallProgress ==
    /\ pc = "call_progress"
    /\ \E pct \in Percents, cp \in ColorPairs : progress(pct, cp[1], cp[2])
    /\ prev' = << >>
    /\ pc' = "call_again"
    /\ UNCHANGED <<cfgVars, animVars, envVars, obsVars, colour1, colour2,
                   percent_of_c1, mixed, heatVars, corrVars>>

\* the same strip and colours at another percent
CallProgressAgain ==
    /\ pc = "call_again"
    /\ \E pct \in Percents : progress(pct, base_color, progress_color)
    /\ prev' = <<percent, Painted(events)>>
    /\ pc' = "done"
    /\ UNCHANGED <<cfgVars, animVars, envVars, obsVars, colour1, colour2,
                   percent_of_c1, mixed, heatVars, corrVars>>

NextProgress == CallProgress \/ CallProgressAgain

SpecProgress == InitProgress /\ [][NextProgress]_vars

(***************************************************************************)
(* mix_color() on its own                                                  *)
(***************************************************************************)
TestChannels == {0, 128, 255}

TestColors == {<<r, g, b>> : r \in TestChannels, g \in TestChannels,
                             b \in TestChannels}

\* percent_of_c1 in hundredths: omitted, 0, 0.5 and 1
Weights == {None, 0, 50, 100}

InitMix ==
    /\ pc = "call_mix"
    /\ numPixels = LED_COUNT
    /\ REVERSE = TRUE
    /\ strip = Blank(LED_COUNT)
    /\ brightness = LED_BRIGHTNESS
    /\ shown = Flush(Blank(LED_COUNT), LED_BRIGHTNESS)
    /\ colour1 \in TestColors
    /\ colour2 \in TestColors
    /\ percent_of_c1 \in Weights
    /\ temp = NoHeater
    /\ color = OFF
    /\ led_brightness = LED_BRIGHTNESS
    /\ Idle

CallMixColor ==
    /\ pc = "call_mix"
    /\ mixed' \in {mix_color(colour1, colour2, percent_of_c1, err) :
                        err \in FpErr}
    /\ pc' = "mixed"
    /\ UNCHANGED <<cfgVars, hwVars, events, progArgs, animVars, envVars, obsVars,
                   prev, colour1, colour2, percent_of_c1, heatVars,
                   corrVars>>

NextMix == CallMixColor

SpecMix == InitMix /\ [][NextMix]_vars

(***************************************************************************)
(* heating_percent() on its own                                            *)
(***************************************************************************)
MaxCold == 5
MaxTemperature == 12
MaxTarget == 12

\* any heater object the status API can answer with, in whole degrees
InitHeating ==
    /\ pc = "call_heating"
    /\ numPixels = LED_COUNT
    /\ REVERSE = TRUE
    /\ strip = Blank(LED_COUNT)
    /\ brightness = LED_BRIGHTNESS
    /\ shown = Flush(Blank(LED_COUNT), LED_BRIGHTNESS)
    /\ colour1 = OFF
    /\ colour2 = OFF
    /\ percent_of_c1 = None
    /\ temp \in [temperature : (0 - MaxCold)..MaxTemperature,
                  target : 0..MaxTarget]
    /\ color = OFF
    /\ led_brightness = LED_BRIGHTNESS
    /\ Idle

\* the call returns a number or raises
CallHeatingPercent ==
    /\ pc = "call_heating"
    /\ \E v \in {heating_percent(temp.temperature, temp.target)} :
        IF v = ZeroDivisionError
        THEN pc' = "raised" /\ heated' = heated
        ELSE pc' = "returned" /\ heated' = v
    /\ UNCHANGED <<cfgVars, hwVars, events, progArgs, animVars, envVars, obsVars,
                   prev, colour1, colour2, percent_of_c1, mixed, temp,
                   corrVars>>

NextHeating == CallHeatingPercent

SpecHeating == InitHeating /\ [][NextHeating]_vars

(***************************************************************************)
(* color_brightness_correction() on its own                                *)
(***************************************************************************)
\* channel values spread over the whole scale: the multiples of the prime
\* factors 5 and 17 of 255
CorrectionChannels == {c \in 0..FullScale : c % 5 = 0 \/ c % 17 = 0}

CorrectionColors ==
    {<<c, FullScale - c, (3 * c) % (FullScale + 1)>> :
        c \in CorrectionChannels}

\* any colour under any configured LED_BRIGHTNESS
InitCorrection ==
    /\ pc = "call_correction"
    /\ numPixels = LED_COUNT
    /\ REVERSE = TRUE
    /\ strip = Blank(LED_COUNT)
    /\ brightness = LED_BRIGHTNESS
    /\ shown = Flush(Blank(LED_COUNT), LED_BRIGHTNESS)
    /\ colour1 = OFF
    /\ colour2 = OFF
    /\ percent_of_c1 = None
    /\ temp = NoHeater
    /\ color \in CorrectionColors
    /\ led_brightness \in 0..FullScale
    /\ Idle

CallColorBrightnessCorrection ==
    /\ pc = "call_correction"
    /\ corrected' = brightness_corrected(color, led_brightness)
    /\ pc' = "corrected"
    /\ UNCHANGED <<cfgVars, hwVars, events, progArgs, animVars, envVars, obsVars,
                   prev, colour1, colour2, percent_of_c1, mixed, heatVars,
                   led_brightness>>

NextCorrection == CallColorBrightnessCorrection

SpecCorrection == InitCorrection /\ [][NextCorrection]_vars

(***************************************************************************)
(* bounce() on its own                                                     *)
(***************************************************************************)
\* <<pixels, brightness>> of a strip of n pixels as run() can hand it to
\* bounce(): as constructed, as a fade leaves it, as progress() leaves it
PriorStrips(n) ==
    { <<Blank(n), LED_BRIGHTNESS>>,
      <<Solid(n, STANDBY_COLOR), 0>>,
      <<Solid(n, color_brightness_correction(HEATING_BASE_COLOR)),
        LED_BRIGHTNESS>> }

InitChase ==
    /\ pc = "call_bounce"
    /\ numPixels \in 1..MaxPixels
    /\ REVERSE = TRUE
    /\ \E ps \in PriorStrips(numPixels) :
        /\ strip = ps[1]
        /\ brightness = ps[2]
        /\ shown = Flush(ps[1], ps[2])
    /\ colour1 = OFF
    /\ colour2 = OFF
    /\ percent_of_c1 = None
    /\ temp = NoHeater
    /\ color = OFF
    /\ led_brightness = LED_BRIGHTNESS
    /\ Idle

\* line 205
StartBounce ==
    /\ pc = "call_bounce"
    /\ CallBounce(PAUSED_COLOR, "returned")
    /\ events' = << >>
    /\ UNCHANGED <<cfgVars, hwVars, progArgs, envVars, obsVars, testVars>>

NextChase ==
    StartBounce \/ ChaseBrightness \/ ChaseWrite \/ ChaseShow \/ ChaseSleep

SpecChase == InitChase /\ [][NextChase]_vars

(***************************************************************************)
(* Properties of run()                                                     *)
(***************************************************************************)
AllOff(s) == \A p \in DOMAIN s : s[p] = OFF

LastEvent == events[Len(events)]

\* C1 as stated: when the printer_state() calls return printing, printing,
\* standby, error, printing, run() executes the printing phases twice and,
\* between the two, the standby fade once and the error fade once.
C1_TwoPrintingRuns ==
    matched = Len(PollScript)
        => branches = <<"printing", "standby", "error", "printing">>

\* C1 amended: with those five answers run() enters the printing phases
\* once, on the second call (the first call is only printed); the third
\* call ends the printing loop, the fourth is the test of the standby loop
\* and the fifth the test of the paused loop, so no fade runs and the next
\* call is the test of the error loop.
C1_OnePrintingRun ==
    matched = Len(PollScript)
        => /\ branches = <<"printing">>
           /\ pc \in LoopPcs => pc = "poll_error"

C1_Witness ==
    /\ matched = Len(PollScript)
    /\ pc = "poll_error"
    /\ shown.pixels # Blank(numPixels)

\* C2: after a KeyboardInterrupt anywhere in the loop run() has ended, its
\* last driver call is a flush, and that flush shows every pixel off; no
\* pixel write follows it.
C2_InterruptClearsStrip ==
    pc = "exited"
        => /\ LastEvent = EvShow
           /\ AllOff(shown.pixels)
           /\ strip = shown.pixels
           /\ DOMAIN strip = 0..(numPixels - 1)
           /\ ~ENABLED Next

C2_Witness ==
    /\ pc = "exited"
    /\ ret = "poll_paused"
    /\ reverse
    /\ i > 0
    /\ AllOff(strip)

\* C9: a failing status query ends run() with no driver call at all: the
\* step of the failure leaves the pixels, the brightness and the hardware
\* as they were, and nothing runs after it.
C9_QueryFailureEndsRun ==
    /\ [][pc' = "crashed"
            => /\ pc \in QueryPcs
               /\ events' = << EvRaise >>
               /\ UNCHANGED hwVars]_vars
    /\ [](pc = "crashed" => ~ENABLED Next)

C9_Witness ==
    /\ pc = "crashed"
    /\ events = << EvRaise >>
    /\ ~AllOff(shown.pixels)
    /\ percent = 55

\* the poll that follows a poll of an unrecognised state
AfterPoll(at) ==
    CASE at = "poll_print" -> "poll_printing"
      [] at = "poll_printing" -> "poll_standby"
      [] at = "poll_standby" -> "poll_paused"
      [] at = "poll_paused" -> "poll_error"
      [] at = "poll_error" -> "sleep"

\* C10: a printer_state() call that returns an unrecognised state makes no
\* driver call and passes to the next test of the pass; after the last one
\* run() sleeps 2 seconds, again without a driver call, and polls anew.
C10_UnrecognisedStateIdles ==
    /\ [][(/\ pc \in {StatePolls[k] : k \in DOMAIN StatePolls}
           /\ LastEvent'.op = "printer_state"
           /\ LastEvent'.s \notin Recognised)
            => /\ events' = << EvQuery("printer_state", 0, LastEvent'.s) >>
               /\ UNCHANGED hwVars
               /\ pc' = AfterPoll(pc)]_vars
    /\ [][(pc = "sleep" /\ pc' \in LoopPcs)
            => /\ events' = << EvSleep(2000) >>
               /\ UNCHANGED hwVars
               /\ pc' = "poll_print"]_vars

C10_Witness ==
    /\ pc = "poll_print"
    /\ quiet = Len(StatePolls)
    /\ events = << EvSleep(2000) >>
    /\ ~AllOff(shown.pixels)

\* run() executes the animation of the settled state s
Animating(s) ==
    CASE s = "paused" ->
            pc \in ChasePcs /\ color = PAUSED_COLOR /\ ret = "poll_paused"
      [] s = "standby" ->
            pc \in FadePcs /\ color = STANDBY_COLOR /\ speed = 50
      [] s = "error" ->
            pc \in FadePcs /\ color = ERROR_COLOR /\ speed = 5

\* run() is in the loop of the settled state s: in its animation or at the
\* test that starts it again
InLoopOf(s) ==
    \/ Animating(s)
    \/ s = "paused" /\ pc = "poll_paused"
    \/ s = "standby" /\ pc = "poll_standby"
    \/ s = "error" /\ pc = "poll_error"

\* C3 as stated: once the printer has settled in paused (standby, error),
\* run() eventually runs the bounce (slow fade, fast fade), whatever it was
\* doing when the state changed, a printing phase included.
C3_SettledStateShown ==
    \A s \in Settled : (hold = s) ~> Animating(s)

\* C3 amended: once the printer has settled in paused (standby, error) and
\* run() is not inside a printing phase, run() eventually runs the bounce
\* (slow fade, fast fade) and from some point on does nothing else.  A
\* printing phase is not left on a state change: it ends only when its own
\* percent reaches the threshold.
C3_SettledStateShownOutsidePhases ==
    \A s \in Settled :
        /\ (hold = s /\ pc \notin PhasePcs) ~> Animating(s)
        /\ (hold = s /\ pc \notin PhasePcs) ~> [] InLoopOf(s)

C3_Witness ==
    /\ hold = "paused"
    /\ Animating("paused")
    /\ reverse
    /\ pc = "chase_show"
    /\ i = 0
    /\ percent = 100

\* the step is a status query of the given name and object
Queried(name, object) ==
    /\ LastEvent'.op = name
    /\ LastEvent'.s = object

\* the step is a render: the driver calls of a progress() call
Rendered ==
    /\ events'[1] = EvBrightness(LED_BRIGHTNESS)
    /\ LastEvent' = EvShow

\* C13: in the printing branch the phases run in the order bed heating,
\* extruder heating, print progress: the bed phase is entered only by a
\* printer_state() call that returned printing, the extruder phase only by a
\* bed poll that returned 99 or more, the print phase only by an extruder
\* poll that returned 99 or more; every query and render belongs to the
\* phase run() is in; the print phase ends only on a poll of 100 or more, and
\* the next call is then printer_state(); a printer_state() call at the loop
\* entry that returns another state runs no phase.
C13_PhaseOrder ==
    /\ [][(pc' \in BedPcs /\ pc \notin BedPcs)
            => /\ pc = "poll_printing"
               /\ events' = << EvQuery("printer_state", 0, "printing") >>
               /\ pc' = "bed_poll"]_vars
    /\ [][(pc' \in ExtruderPcs /\ pc \notin ExtruderPcs)
            => /\ pc = "bed_poll"
               /\ Queried("heating_percent", "heater_bed")
               /\ LastEvent'.n >= 99
               /\ pc' = "ext_poll"]_vars
    /\ [][(pc' \in PrintPcs /\ pc \notin PrintPcs)
            => /\ pc = "ext_poll"
               /\ Queried("heating_percent", "extruder")
               /\ LastEvent'.n >= 99
               /\ pc' = "print_poll"]_vars
    /\ [][(pc \in PrintPcs /\ pc' \in LoopPcs \ PrintPcs)
            => /\ pc = "print_poll"
               /\ Queried("printing_percent", "")
               /\ LastEvent'.n >= 100
               /\ pc' = "poll_printing"]_vars
    /\ [][/\ Queried("heating_percent", "heater_bed") => pc = "bed_poll"
          /\ Queried("heating_percent", "extruder") => pc = "ext_poll"
          /\ Queried("printing_percent", "") => pc = "print_poll"
          /\ Rendered => \/ pc = "bed_render" /\ pc' = "bed_sleep"
                         \/ pc = "ext_render" /\ pc' = "ext_sleep"
                         \/ pc = "print_render" /\ pc' = "print_sleep"]_vars
    /\ [][(pc = "poll_printing" /\ pc' \in LoopPcs)
            => /\ LastEvent'.op = "printer_state"
               /\ Len(events') = 1
               /\ LastEvent'.s # "printing"
                    => pc' = "poll_standby" /\ UNCHANGED hwVars]_vars

\* the print phase has just ended after a render at 99 percent
C13_Witness ==
    /\ pc = "poll_printing"
    /\ events = << EvQuery("printing_percent", 100, "") >>
    /\ percent = 100
    /\ base_color = PRINT_BASE_COLOR
    /\ progress_color = PRINT_PROGRESS_COLOR
    /\ shown.pixels[0] # OFF

\* C17: every channel run() writes to a pixel, in progress(), fade(),
\* chase() or the interrupt handler, is in 0..255, and every brightness it
\* sets is in 0..LED_BRIGHTNESS, whatever the status queries return.
C17_ValuesInRange ==
    /\ \A k \in DOMAIN events :
        /\ events[k].op = "setPixelColorRGB"
            => \A j \in 1..3 : events[k].c[j] \in 0..FullScale
        /\ events[k].op = "setBrightness"
            => events[k].n \in 0..LED_BRIGHTNESS
    /\ \A p \in DOMAIN strip, j \in 1..3 : strip[p][j] \in 0..FullScale
    /\ brightness \in 0..LED_BRIGHTNESS
    /\ shown.brightness \in 0..LED_BRIGHTNESS

\* a render of the extruder phase with a boundary pixel, at 55 percent
C17_Witness ==
    /\ pc = "ext_sleep"
    /\ percent = 55
    /\ \E k \in DOMAIN events :
        /\ events[k].s = "tween"
        /\ events[k].c # OFF
    /\ \E k \in DOMAIN events : events[k] = EvBrightness(LED_BRIGHTNESS)

\* the threshold of the phase of a poll or render at pc
Threshold(at) == IF at \in PrintPcs THEN 100 ELSE 99

\* C18: run() calls progress() only with the percent just polled and only
\* when it is below the threshold of the phase (99 heating, 100 printing);
\* a poll at or above the threshold ends the phase with no driver call, so
\* the strip keeps the last render, and no render paints the whole strip in
\* the progress colour.
C18_BelowThreshold ==
    /\ [][Rendered
            => /\ pc \in {"bed_render", "ext_render", "print_render"}
               /\ percent' = percent
               /\ percent' < Threshold(pc)
               /\ shown'.pixels
                    # Solid(numPixels,
                            color_brightness_correction(progress_color'))]_vars
    /\ [][(pc \in {"bed_poll", "ext_poll", "print_poll"}
              /\ LastEvent'.op \in {"heating_percent", "printing_percent"})
            => IF LastEvent'.n >= Threshold(pc)
               THEN /\ UNCHANGED hwVars
                    /\ pc = "bed_poll" => pc' = "ext_poll"
                    /\ pc = "ext_poll" => pc' = "print_poll"
                    /\ pc = "print_poll" => pc' = "poll_printing"
               ELSE /\ pc = "bed_poll" => pc' = "bed_render"
                    /\ pc = "ext_poll" => pc' = "ext_render"
                    /\ pc = "print_poll" => pc' = "print_render"]_vars

\* the bed phase has ended on a poll of 101 percent after a render at 98
C18_Witness ==
    /\ pc = "ext_poll"
    /\ percent = 101
    /\ events = << EvQuery("heating_percent", 101, "heater_bed") >>
    /\ \E c \in {color_brightness_correction(HEATING_PROGRESS_COLOR)} :
        /\ strip[numPixels - 1] = c
        /\ strip[1] = c
        /\ strip[0] # c
    /\ shown.pixels = strip

Ended == {"exited", "crashed"}

\* C19: inside a printing phase run() never calls printer_state(), and it
\* leaves a phase only when the phase's own poll reaches the threshold, on
\* an interrupt or on a failing query.  Once the bed heater has no target,
\* every bed poll returns 0 and a poll of 0 is rendered as a strip in the
\* heating base colour; run() never leaves the bed phase, keeps rendering,
\* and enters neither the extruder phase nor the print phase.
C19_PhaseHoldsUntilThreshold ==
    /\ [][(pc \in PhasePcs /\ events' # << >>)
            => \A k \in DOMAIN events' : events'[k].op # "printer_state"]_vars
    /\ [][\A phase \in {BedPcs, ExtruderPcs, PrintPcs} :
            (pc \in phase /\ pc' \notin phase)
                => \/ pc' \in Ended
                   \/ /\ pc \in {"bed_poll", "ext_poll", "print_poll"}
                      /\ percent' >= Threshold(pc)
                      /\ LastEvent'.n = percent']_vars
    /\ [][(bed_off /\ pc = "bed_poll" /\ pc' \notin Ended)
            => /\ events' = << EvQuery("heating_percent", 0, "heater_bed") >>
               /\ percent' = 0
               /\ pc' = "bed_render"]_vars
    /\ [][(bed_off /\ pc = "bed_render" /\ percent = 0 /\ pc' \notin Ended)
            => /\ pc' = "bed_sleep"
               /\ strip' = Solid(numPixels,
                                 color_brightness_correction(HEATING_BASE_COLOR))
               /\ shown' = Flush(strip', LED_BRIGHTNESS)]_vars
    /\ [][(bed_off /\ pc \in BedPcs) => pc' \in BedPcs \cup Ended]_vars
    /\ [][(bed_off /\ pc \notin ExtruderPcs \cup PrintPcs)
            => pc' \notin ExtruderPcs \cup PrintPcs]_vars
    /\ (bed_off /\ pc \in BedPcs)
            ~> (pc \in Ended \/ (pc = "bed_sleep" /\ percent = 0))

\* after a render and a sleep with the bed heater off, at the next poll
C19_Witness ==
    /\ bed_off
    /\ pc = "bed_poll"
    /\ events = << EvSleep(2000) >>
    /\ percent = 0
    /\ strip = Solid(numPixels,
                     color_brightness_correction(HEATING_BASE_COLOR))
    /\ shown = Flush(strip, LED_BRIGHTNESS)

(***************************************************************************)
(* Properties of progress()                                                *)
(***************************************************************************)
Called == {"call_again", "done"}

Pixels == 0..(numPixels - 1)

PixelWrites == {k \in DOMAIN events : events[k].op = "setPixelColorRGB"}

\* whole and remainder (in hundredths) as the specification defines them
SpecWhole == (percent * numPixels) \div 100
SpecRemainder == percent * numPixels - 100 * SpecWhole

\* the k-th pixel counted from the progress end, k = 0, 1, ...
FromProgressEnd(k) == IF REVERSE THEN (numPixels - 1) - k ELSE k

\* C4: after progress() at percent 0 every pixel holds the brightness-
\* corrected base colour, and at percent 100 the brightness-corrected
\* progress colour, for every strip length and both directions.
C4_EndsOfTheScale ==
    pc \in Called
        => /\ percent = 0
                => \A p \in Pixels :
                      strip[p] = color_brightness_correction(base_color)
           /\ percent = 100
                => \A p \in Pixels :
                      strip[p] = color_brightness_correction(progress_color)
           /\ shown = Flush(strip, LED_BRIGHTNESS)

C4_Witness ==
    /\ pc = "done"
    /\ prev # << >>
    /\ prev[1] = 0
    /\ percent = 100
    /\ numPixels = LED_COUNT
    /\ strip = Solid(LED_COUNT, <<100, 0, 0>>)

C6_IndicesAndFlush ==
    pc \in Called
        => /\ \A k \in PixelWrites : events[k].n \in Pixels
           /\ Cardinality({k \in DOMAIN events : events[k].op = "show"}) = 1
           /\ events[Len(events)].op = "show"

C6_Witness ==
    /\ pc = "done"
    /\ percent = 100
    /\ REVERSE
    /\ numPixels = LED_COUNT
    /\ Cardinality(PixelWrites) = LED_COUNT
    /\ prev # << >>
    /\ prev[1] = 99

\* C7: on one strip with one pair of colours, a larger percent never paints
\* fewer progress and boundary pixels.
C7_Monotone ==
    (pc = "done" /\ prev[1] <= percent) => prev[2] <= Painted(events)

C7_Witness ==
    /\ pc = "done"
    /\ prev[1] = 54
    /\ percent = 55
    /\ numPixels = LED_COUNT
    /\ prev[2] = 6
    /\ Painted(events) = 6

(***************************************************************************)
(* Properties of chase() and bounce()                                      *)
(***************************************************************************)
\* the pixels the last flush showed lit
Lit == {p \in Pixels : shown.pixels[p] # OFF}

\* C14: at every flush of chase(), in both directions and whatever the
\* strip showed before the call, at most one pixel is lit, and it is the
\* pixel at the current sweep position.
C14_OneLitPixel == pc = "chase_sleep" => Lit \subseteq {i}

\* C15: chase() on n pixels visits the positions 0..n in order (n..0 when
\* reverse) and returns after the last; at position n every write is off
\* and the position ends with no pixel lit; every index written is in
\* 0..n-1.
C15_SweepPositions ==
    /\ [](pc \in {"chase_write", "chase_show", "chase_sleep"}
            => i \in 0..numPixels /\ pixel \in Pixels)
    /\ [][pc = "chase_brightness"
            => i' = IF reverse THEN numPixels ELSE 0]_vars
    /\ [][(pc \in ChasePcs /\ pc' \in ChasePcs /\ i' # i
              /\ pc # "chase_brightness" /\ pc' # "chase_brightness")
            => /\ pixel = numPixels - 1
               /\ i' = IF reverse THEN i - 1 ELSE i + 1]_vars
    /\ [][(pc = "chase_sleep" /\ pc' # "chase_write")
            => /\ pixel = numPixels - 1
               /\ i = IF reverse THEN 0 ELSE numPixels]_vars
    /\ [][pc = "chase_write"
            => /\ events'[1].op = "setPixelColorRGB"
               /\ events'[1].n \in Pixels
               /\ events'[1].n = pixel
               /\ i = numPixels => events'[1].c = OFF]_vars
    /\ [](pc = "chase_sleep" /\ i = numPixels /\ pixel = numPixels - 1
            => Lit = {} /\ AllOff(strip))

\* the reverse chase has finished its first position, one past the last
\* pixel
C15_Witness ==
    /\ pc = "chase_sleep"
    /\ reverse
    /\ i = numPixels
    /\ pixel = numPixels - 1
    /\ numPixels > 1
    /\ AllOff(shown.pixels)

(***************************************************************************)
(* Properties of mix_color()                                               *)
(***************************************************************************)
Abs(x) == IF x < 0 THEN 0 - x ELSE x

\* C8: mix_color(c1, c2, 1) is c1 to within 1 per channel and
\* mix_color(c1, c2, 0) is c2.
C8_WeightEnds ==
    pc = "mixed"
        => /\ percent_of_c1 = 100
                => \A k \in 1..3 : Abs(mixed[k] - colour1[k]) <= 1
           /\ percent_of_c1 = 0 => mixed = colour2

C12_ScaledChannels ==
    pc = "corrected"
        => /\ led_brightness = FullScale => corrected = color
           /\ led_brightness = 0 => corrected = OFF
           /\ \A k \in 1..3 :
                /\ corrected[k] = (color[k] * led_brightness) \div FullScale
                /\ corrected[k] <= color[k]

(***************************************************************************)
(* Properties of fade()                                                    *)
(***************************************************************************)
\* C16: every flush of fade() shows all pixels at color; the brightness of
\* the first flush is 0, each later flush differs from the one before by
\* exactly one unit, the ramp reaches LED_BRIGHTNESS, and fade() returns
\* with brightness 0, whatever the brightness was at the call.
C16_BrightnessRamp ==
    /\ [][(pc \in FadePcs /\ events' = << EvShow >>)
            => /\ shown'.pixels = Solid(numPixels, color)
               /\ IF pc = "fade_show"
                  THEN shown'.brightness = 0
                  ELSE Abs(shown'.brightness - shown.brightness) = 1]_vars
    /\ [](pc = "fade_down_sleep" /\ i = LED_BRIGHTNESS
            => shown.brightness = LED_BRIGHTNESS)
    /\ [][(pc = "fade_down_sleep" /\ pc' \in LoopPcs \ FadePcs)
            => brightness' = 0 /\ shown'.brightness = 0]_vars

====
